---- MODULE Spec2Model ----
(***************************************************************************)
(* netlib/encoding.py: decode/encode of message bodies through a registry  *)
(* of codecs (identity, gzip, deflate, br), a fallback to the charset      *)
(* codecs, and the shared single-element cache _cache.                     *)
(*                                                                         *)
(* A payload is a record [kind, data]: kind is "bytes" or "text" (what     *)
(* isinstance(x, bytes) tells apart), data the sequence of its byte values *)
(* or code points.  The compression libraries are modelled on the stored   *)
(* block form of their formats: a deflate stream is a block header, the    *)
(* length and the literal bytes; zlib and gzip wrap it in their header and *)
(* checksum trailer.                                                       *)
(***************************************************************************)
EXTENDS Integers, Sequences, FiniteSets, TLC

\* ---------------------------------------------------------------- bounds
\* How many distinct plain contents the calls draw from (shortlex order).
NumContents == 2
\* The clock readings gzip may stamp into a header are 0..MaxMTime.
MaxMTime == 1

\* ------------------------------------------------------------- payloads
B(s) == [kind |-> "bytes", data |-> s]
T(s) == [kind |-> "text", data |-> s]
\* Python's None, as a payload.
NonePayload == [kind |-> "none", data |-> <<>>]

isinstance_bytes(x) == x.kind = "bytes"

\* What a call of a library or codec function ends with: a value or a raise.
Ok(v) == [ok |-> TRUE, val |-> v, exc |-> "none"]
Raise(k) == [ok |-> FALSE, val |-> NonePayload, exc |-> k]

RECURSIVE SumBytes(_)
SumBytes(s) == IF s = <<>> THEN 0 ELSE Head(s) + SumBytes(Tail(s))

\* ----------------------------------------------------------------- zlib
\* First byte of a zlib stream (CMF: deflate, 32K window).
ZlibCMF == 120
\* Header byte of a final stored deflate block.
StoredBlock == 1
\* zlib.decompress's default wbits, and the raw-deflate convention.
MAX_WBITS == 15

Adler32(s) == (1 + SumBytes(s)) % 256

\* The raw deflate stream of s.
Deflate(s) == <<StoredBlock, Len(s)>> \o s

\* Inflating the raw deflate stream at the start of s: the bytes and how many
\* input bytes the stream took.  Input after the end of the stream is left.
Inflate(s) ==
  IF Len(s) >= 2 /\ s[1] = StoredBlock /\ Len(s) >= 2 + s[2]
  THEN [ok |-> TRUE, out |-> SubSeq(s, 3, 2 + s[2]), used |-> 2 + s[2]]
  ELSE [ok |-> FALSE, out |-> <<>>, used |-> 0]

zlib_compress(content) ==
  IF ~isinstance_bytes(content) THEN Raise("TypeError")
  ELSE Ok(B(<<ZlibCMF>> \o Deflate(content.data) \o <<Adler32(content.data)>>))

zlib_decompress(content, wbits) ==
  IF ~isinstance_bytes(content) THEN Raise("TypeError")
  ELSE LET s == content.data IN
    IF wbits < 0
    THEN LET r == Inflate(s) IN
           IF r.ok THEN Ok(B(r.out)) ELSE Raise("zlib.error")
    ELSE IF Len(s) >= 1 /\ s[1] = ZlibCMF
         THEN LET r == Inflate(Tail(s)) IN
                IF r.ok /\ Len(s) >= r.used + 2
                        /\ s[r.used + 2] = Adler32(r.out)
                THEN Ok(B(r.out)) ELSE Raise("zlib.error")
         ELSE Raise("zlib.error")

\* ----------------------------------------------------------------- gzip
\* First byte of a gzip member (ID1).
GzipID1 == 31

Crc32(s) == (Len(s) + 2 * SumBytes(s)) % 256

\* A member written without its ISIZE field.
GzipMember_NoISize(s, mtime) ==
  <<GzipID1, mtime>> \o Deflate(s) \o <<Crc32(s)>>

\* One gzip member: magic, MTIME, the deflate stream, CRC32 and ISIZE.
GzipMember(s, mtime) ==
  <<GzipID1, mtime>> \o Deflate(s) \o <<Crc32(s), (Len(s) % 256)>>

RECURSIVE SkipZeros(_)
SkipZeros(s) == IF s # <<>> /\ Head(s) = 0 THEN SkipZeros(Tail(s)) ELSE s

\* GzipFile.read(): every member to the end of the input; no input at all
\* reads as no data; zero padding after a member is skipped.
RECURSIVE GzipRead(_)
GzipRead(s) ==
  IF s = <<>> THEN [ok |-> TRUE, out |-> <<>>, exc |-> "none"]
  ELSE IF Len(s) < 2 \/ s[1] # GzipID1
       THEN [ok |-> FALSE, out |-> <<>>, exc |-> "OSError"]
  ELSE LET r == Inflate(SubSeq(s, 3, Len(s))) IN
    IF ~r.ok THEN [ok |-> FALSE, out |-> <<>>,
                   exc |-> IF Len(s) >= 3 /\ s[3] # StoredBlock
                           THEN "zlib.error" ELSE "EOFError"]
    ELSE IF Len(s) < 2 + r.used + 2
         THEN [ok |-> FALSE, out |-> <<>>, exc |-> "EOFError"]
    ELSE IF s[r.used + 3] # Crc32(r.out) \/ s[r.used + 4] # (Len(r.out) % 256)
         THEN [ok |-> FALSE, out |-> <<>>, exc |-> "OSError"]
    ELSE LET rest == GzipRead(SkipZeros(SubSeq(s, r.used + 5, Len(s)))) IN
           IF rest.ok THEN [ok |-> TRUE, out |-> r.out \o rest.out, exc |-> "none"]
           ELSE rest

\* ---------------------------------------------------------------- brotli
\* First byte of a brotli stream written with the default window.
BrotliWBits == 59

brotli_compress(content) ==
  IF ~isinstance_bytes(content) THEN Raise("TypeError")
  ELSE Ok(B(<<BrotliWBits, Len(content.data)>> \o content.data))

\* The whole input must be one stream: input after its end is an error.
brotli_decompress(content) ==
  IF ~isinstance_bytes(content) THEN Raise("TypeError")
  ELSE LET s == content.data IN
    IF Len(s) >= 2 /\ s[1] = BrotliWBits /\ Len(s) = 2 + s[2]
    THEN Ok(B(SubSeq(s, 3, Len(s)))) ELSE Raise("brotli.error")

\* -------------------------------------------------------- charset codecs
\* Code point of the replacement marker U+FFFD.
REPLACEMENT == 65533

IsCont(s, i) == i <= Len(s) /\ s[i] >= 128 /\ s[i] <= 191

\* The UTF-8 decoder: the code points of s, malformed bytes handled as the
\* error policy says.  bad is TRUE when a malformed byte met policy strict.
RECURSIVE Utf8Decode(_, _)
Utf8Decode(s, errors) ==
  IF s = <<>> THEN [bad |-> FALSE, out |-> <<>>]
  ELSE LET b == Head(s)
           n == IF b < 128 THEN 1
                ELSE IF b >= 194 /\ b <= 223 /\ IsCont(s, 2) THEN 2
                ELSE IF b >= 224 /\ b <= 239 /\ IsCont(s, 2) /\ IsCont(s, 3)
                        /\ (b - 224) * 4096 + (s[2] - 128) * 64 >= 2048
                THEN 3 ELSE 0
           cp == IF n = 1 THEN <<b>>
                 ELSE IF n = 2 THEN <<(b - 192) * 64 + (s[2] - 128)>>
                 ELSE IF n = 3
                 THEN <<(b - 224) * 4096 + (s[2] - 128) * 64 + (s[3] - 128)>>
                 ELSE IF errors = "replace" THEN <<REPLACEMENT>>
                 ELSE <<>>
           rest == Utf8Decode(SubSeq(s, (IF n = 0 THEN 1 ELSE n) + 1, Len(s)), errors)
       IN  [bad |-> rest.bad \/ (n = 0 /\ errors = "strict"),
            out |-> cp \o rest.out]

IsSurrogate(c) == c >= 55296 /\ c <= 57343

RECURSIVE Utf8Encode(_, _)
Utf8Encode(s, errors) ==
  IF s = <<>> THEN [bad |-> FALSE, out |-> <<>>]
  ELSE LET c == Head(s)
           bs == IF IsSurrogate(c)
                 THEN (IF errors = "replace" THEN <<63>> ELSE <<>>)
                 ELSE IF c < 128 THEN <<c>>
                 ELSE IF c < 2048 THEN <<192 + (c \div 64), 128 + (c % 64)>>
                 ELSE <<224 + (c \div 4096), 128 + ((c \div 64) % 64), 128 + (c % 64)>>
           rest == Utf8Encode(Tail(s), errors)
       IN  [bad |-> rest.bad \/ (IsSurrogate(c) /\ errors = "strict"),
            out |-> bs \o rest.out]

\* The charset names the codecs module knows, of those the calls use.
Charsets == {"utf-8"}

\* codecs.decode called without the error policy.
codecs_decode_Strict(obj, encoding, errors) ==
  IF encoding \notin Charsets THEN Raise("LookupError")
  ELSE IF ~isinstance_bytes(obj) THEN Raise("TypeError")
  ELSE LET r == Utf8Decode(obj.data, "strict") IN
         IF r.bad THEN Raise("UnicodeDecodeError") ELSE Ok(T(r.out))

codecs_decode(obj, encoding, errors) ==
  IF encoding \notin Charsets THEN Raise("LookupError")
  ELSE IF ~isinstance_bytes(obj) THEN Raise("TypeError")
  ELSE LET r == Utf8Decode(obj.data, errors) IN
         IF r.bad THEN Raise("UnicodeDecodeError") ELSE Ok(T(r.out))

codecs_encode(obj, encoding, errors) ==
  IF encoding \notin Charsets THEN Raise("LookupError")
  ELSE IF obj.kind # "text" THEN Raise("TypeError")
  ELSE LET r == Utf8Encode(obj.data, errors) IN
         IF r.bad THEN Raise("UnicodeEncodeError") ELSE Ok(B(r.out))

\* --------------------------------------------------------------- codecs
\* A codec's outcome with the library calls it made, in order.
Logged(r, log) == [ok |-> r.ok, val |-> r.val, exc |-> r.exc, log |-> log]

identity(content) == Logged(Ok(content), <<>>)

decode_gzip(content) ==
  IF ~isinstance_bytes(content) THEN Logged(Raise("TypeError"), <<"GzipFile">>)
  ELSE LET r == GzipRead(content.data) IN
         Logged(IF r.ok THEN Ok(B(r.out)) ELSE Raise(r.exc), <<"GzipFile.read">>)

\* mtime is the clock reading GzipFile stamps into the header.
encode_gzip(content, mtime) ==
  IF ~isinstance_bytes(content) THEN Logged(Raise("TypeError"), <<"GzipFile.write">>)
  ELSE Logged(Ok(B(GzipMember(content.data, mtime))), <<"GzipFile.write">>)

decode_brotli(content) == Logged(brotli_decompress(content), <<"brotli.decompress">>)

encode_brotli(content) == Logged(brotli_compress(content), <<"brotli.compress">>)

\* decode_deflate trying the raw stream first and the wrapped one second.
decode_deflate_RawFirst(content) ==
  LET first == zlib_decompress(content, -MAX_WBITS) IN
    IF first.exc # "zlib.error"
    THEN Logged(first, <<"zlib.decompress(-15)">>)
    ELSE Logged(zlib_decompress(content, MAX_WBITS),
                <<"zlib.decompress(-15)", "zlib.decompress">>)

\* decode_deflate without its second attempt.
decode_deflate_NoFallback(content) ==
  Logged(zlib_decompress(content, MAX_WBITS), <<"zlib.decompress">>)

decode_deflate(content) ==
  LET first == zlib_decompress(content, MAX_WBITS) IN
    IF first.exc # "zlib.error"
    THEN Logged(first, <<"zlib.decompress">>)
    ELSE Logged(zlib_decompress(content, -MAX_WBITS),
                <<"zlib.decompress", "zlib.decompress(-15)">>)

\* encode_deflate writing the raw stream.
encode_deflate_Raw(content) ==
  Logged(IF ~isinstance_bytes(content) THEN Raise("TypeError")
         ELSE Ok(B(Deflate(content.data))), <<"zlib.compress">>)

encode_deflate(content) == Logged(zlib_compress(content), <<"zlib.compress">>)

\* The registry: a name outside it is a KeyError.
Registry == {"identity", "gzip", "deflate", "br"}

\* The decode registry looked up without regard to case.
custom_decode_CaseInsensitive(encoding, content) ==
  CASE encoding = "identity" -> identity(content)
    [] encoding \in {"gzip", "GZIP"} -> decode_gzip(content)
    [] encoding = "deflate" -> decode_deflate(content)
    [] encoding = "br" -> decode_brotli(content)
    [] OTHER -> Logged(Raise("KeyError"), <<>>)

\* The decode registry without its identity entry.
custom_decode_NoIdentity(encoding, content) ==
  CASE encoding = "gzip" -> decode_gzip(content)
    [] encoding = "deflate" -> decode_deflate(content)
    [] encoding = "br" -> decode_brotli(content)
    [] OTHER -> Logged(Raise("KeyError"), <<>>)

custom_decode(encoding, content) ==
  CASE encoding = "identity" -> identity(content)
    [] encoding = "gzip" -> decode_gzip(content)
    [] encoding = "deflate" -> decode_deflate(content)
    [] encoding = "br" -> decode_brotli(content)
    [] OTHER -> Logged(Raise("KeyError"), <<>>)

custom_encode(encoding, content, mtime) ==
  CASE encoding = "identity" -> identity(content)
    [] encoding = "gzip" -> encode_gzip(content, mtime)
    [] encoding = "deflate" -> encode_deflate(content)
    [] encoding = "br" -> encode_brotli(content)
    [] OTHER -> Logged(Raise("KeyError"), <<>>)

\* Every encoding that is not in the registry cached as well.
Cacheable_WithCharsets == {"gzip", "deflate", "br", "utf-8", "GZIP"}

\* The encodings whose results go to the cache.
Cacheable == {"gzip", "deflate", "br"}

\* ------------------------------------------------- decode / encode calls
\* The tuple with its payload fields in each other's place.
CachedDecode_Swapped(encoded, encoding, errors, decoded) ==
  [encoded |-> decoded, encoding |-> encoding, errors |-> errors,
   decoded |-> encoded]

\* CachedDecode(encoded, encoding, errors, decoded)
CachedDecode(encoded, encoding, errors, decoded) ==
  [encoded |-> encoded, encoding |-> encoding, errors |-> errors,
   decoded |-> decoded]

\* _cache as the module is loaded.
EmptyCache == CachedDecode(NonePayload, "None", "None", NonePayload)

\* What decode/encode end with: the value returned, or ValueError raised with
\* the kind of the underlying failure and the encoding in its message.
Returned(v) == [ok |-> TRUE, val |-> v, exc |-> "none", cause |-> "none",
                about |-> "none"]
\* The failure passed on as it was raised.
ValueError_Leak(cause, encoding) ==
  [ok |-> FALSE, val |-> NonePayload, exc |-> cause, cause |-> cause,
   about |-> encoding]

ValueError(cause, encoding) ==
  [ok |-> FALSE, val |-> NonePayload, exc |-> "ValueError", cause |-> cause,
   about |-> encoding]

\* The lookup without the comparison of the encoding.
DecodeCached_AnyEncoding(c, encoded, encoding, errors) ==
  /\ isinstance_bytes(encoded)
  /\ c.encoded = encoded
  /\ c.errors = errors

\* The lookup without the comparison of the payload.
DecodeCached_NoPayload(c, encoded, encoding, errors) ==
  /\ isinstance_bytes(encoded)
  /\ c.encoding = encoding
  /\ c.errors = errors

\* The lookup disabled.
DecodeCached_Never(c, encoded, encoding, errors) == FALSE

\* encode's lookup keyed on the encoded payload, as decode's is.
EncodeCached_KeyedOnEncoded(c, decoded, encoding, errors) ==
  /\ isinstance_bytes(decoded)
  /\ c.encoded = decoded
  /\ c.encoding = encoding
  /\ c.errors = errors

\* The test of decode's cache lookup against the slot c.
DecodeCached(c, encoded, encoding, errors) ==
  /\ isinstance_bytes(encoded)
  /\ c.encoded = encoded
  /\ c.encoding = encoding
  /\ c.errors = errors

EncodeCached(c, decoded, encoding, errors) ==
  /\ isinstance_bytes(decoded)
  /\ c.decoded = decoded
  /\ c.encoding = encoding
  /\ c.errors = errors

\* The inner try of decode consulting the registry under "strict" only.
DecodeTry_FallbackOnPolicy(encoded, encoding, errors) ==
  LET r == custom_decode(encoding, encoded) IN
    IF r.exc = "KeyError" \/ errors # "strict"
    THEN Logged(codecs_decode(encoded, encoding, errors), <<"codecs.decode">>)
    ELSE r

\* The inner try of decode: the registry's codec, or on KeyError the charset
\* codecs.
DecodeTry(encoded, encoding, errors) ==
  LET r == custom_decode(encoding, encoded) IN
    IF r.exc = "KeyError"
    THEN Logged(codecs_decode(encoded, encoding, errors), <<"codecs.decode">>)
    ELSE r

EncodeTry(decoded, encoding, errors, mtime) ==
  LET r == custom_encode(encoding, decoded, mtime) IN
    IF r.exc = "KeyError"
    THEN Logged(codecs_encode(decoded, encoding, errors), <<"codecs.encode">>)
    ELSE r

\* decode emptying the slot when the codec fails.
decode_ResetOnError(c, encoded, encoding, errors) ==
  IF DecodeCached(c, encoded, encoding, errors)
  THEN [ret |-> Returned(c.decoded), cache |-> c, ran |-> <<>>, hit |-> TRUE]
  ELSE LET r == DecodeTry(encoded, encoding, errors) IN
    IF r.ok
    THEN [ret |-> Returned(r.val),
          cache |-> IF encoding \in Cacheable
                    THEN CachedDecode(encoded, encoding, errors, r.val) ELSE c,
          ran |-> r.log, hit |-> FALSE]
    ELSE [ret |-> ValueError(r.exc, encoding),
          cache |-> CachedDecode(NonePayload, "None", "None", NonePayload),
          ran |-> r.log, hit |-> FALSE]

\* encode whose assignment to _cache does not reach the global.
encode_NoStore(c, decoded, encoding, errors, mtime) ==
  IF EncodeCached(c, decoded, encoding, errors)
  THEN [ret |-> Returned(c.encoded), cache |-> c, ran |-> <<>>, hit |-> TRUE]
  ELSE LET r == EncodeTry(decoded, encoding, errors, mtime) IN
    IF r.ok
    THEN [ret |-> Returned(r.val), cache |-> c, ran |-> r.log, hit |-> FALSE]
    ELSE [ret |-> ValueError(r.exc, encoding), cache |-> c, ran |-> r.log,
          hit |-> FALSE]

\* decode(encoded, encoding, errors) run on the slot c: what it returns, the
\* slot it leaves, the library calls it made, and whether the lookup hit.
decode(c, encoded, encoding, errors) ==
  IF DecodeCached(c, encoded, encoding, errors)
  THEN [ret |-> Returned(c.decoded), cache |-> c, ran |-> <<>>, hit |-> TRUE]
  ELSE LET r == DecodeTry(encoded, encoding, errors) IN
    IF r.ok
    THEN [ret |-> Returned(r.val),
          cache |-> IF encoding \in Cacheable
                    THEN CachedDecode(encoded, encoding, errors, r.val) ELSE c,
          ran |-> r.log, hit |-> FALSE]
    ELSE [ret |-> ValueError(r.exc, encoding), cache |-> c, ran |-> r.log,
          hit |-> FALSE]

encode(c, decoded, encoding, errors, mtime) ==
  IF EncodeCached(c, decoded, encoding, errors)
  THEN [ret |-> Returned(c.encoded), cache |-> c, ran |-> <<>>, hit |-> TRUE]
  ELSE LET r == EncodeTry(decoded, encoding, errors, mtime) IN
    IF r.ok
    THEN [ret |-> Returned(r.val),
          cache |-> IF encoding \in Cacheable
                    THEN CachedDecode(r.val, encoding, errors, decoded) ELSE c,
          ran |-> r.log, hit |-> FALSE]
    ELSE [ret |-> ValueError(r.exc, encoding), cache |-> c, ran |-> r.log,
          hit |-> FALSE]

\* ------------------------------------------------------------- the inputs
\* The n-th byte string over {0, 1} in shortlex order: <<>>, <<0>>, <<1>>, ...
RECURSIVE Digits(_)
Digits(n) == IF n <= 1 THEN <<>> ELSE Append(Digits(n \div 2), n % 2)

Contents == {B(Digits(n + 1)) : n \in 0 .. NumContents - 1}

MTimes == 0 .. MaxMTime

\* Every wire form of content c a peer may send: zlib-wrapped and raw deflate,
\* brotli, and gzip with any timestamp.
Wire(c) ==
  {zlib_compress(c).val, B(Deflate(c.data)), brotli_compress(c).val}
    \cup {B(GzipMember(c.data, t)) : t \in MTimes}

Probe == B(<<0>>)

\* Streams with a byte after their end, a stream cut short, bytes that are no
\* stream and no UTF-8.
Damaged ==
  {B(zlib_compress(Probe).val.data \o <<0>>),
   B(GzipMember(Probe.data, 0) \o <<0>>),
   B(SubSeq(zlib_compress(Probe).val.data, 1, 3 + Len(Probe.data))),
   B(<<255>>)}

Texts == {T(<<97>>)}

\* What encode is called with, and what decode is called with.
Plain == Contents \cup Texts
Payloads == Plain \cup UNION {Wire(c) : c \in Contents} \cup Damaged

Encodings == Registry \cup Charsets \cup {"GZIP"}
Errors == {"strict", "replace"}

\* --------------------------------------------------- the download handler
\* A str as the sequence of its characters. A literal of the source that no
\* pattern is run over is kept whole, as one element.
S(s) == [kind |-> "str", data |-> s]

\* Python's truth value with b"" and "" counted as true.
Truthy_NotNone(x) == x.kind # "none"

\* Python's truth value of None, a str or bytes.
Truthy(x) == x.kind # "none" /\ Len(x.data) > 0

\* The characters \w matches, among those the model writes.
WordChars ==
  {"a", "b", "c", "d", "e", "f", "g", "h", "i", "j", "k", "l", "m", "n", "o",
   "p", "q", "r", "s", "t", "u", "v", "w", "x", "y", "z",
   "0", "1", "2", "3", "4", "5", "6", "7", "8", "9", "_"}

\* The characters of [\w" \.\-\(\)].
FilenameChars == WordChars \cup {"\"", " ", ".", "-", "(", ")"}

IsWordChar(ch) == ch \in WordChars
IsFilenameChar(ch) == ch \in FilenameChars

\* The Content-Encoding value passed on as it was declared.
re_sub_nonword_Keep(s) == s

\* re.sub(r"[^\w]", "", s)
re_sub_nonword(s) == SelectSeq(s, IsWordChar)

\* re.sub(r"[^\w\" \.\-\(\)]", "", s)
re_sub_filename(s) == SelectSeq(s, IsFilenameChar)

FilenameKey == <<"f", "i", "l", "e", "n", "a", "m", "e", "=">>

\* filename=([\w" \.\-\(\)]+) matches s at i.
MatchesAt(s, i) ==
  /\ i + Len(FilenameKey) <= Len(s)
  /\ SubSeq(s, i, i + Len(FilenameKey) - 1) = FilenameKey
  /\ s[i + Len(FilenameKey)] \in FilenameChars

\* Where the longest run of filename characters from j ends.
RunEnd(s, j) ==
  CHOOSE k \in j .. Len(s) :
    /\ \A m \in j .. k : s[m] \in FilenameChars
    /\ k = Len(s) \/ s[k + 1] \notin FilenameChars

\* re.search(...) and .group(1): group 1 of the leftmost match, or None.
re_search_filename(s) ==
  IF \E i \in 1 .. Len(s) : MatchesAt(s, i)
  THEN LET i == CHOOSE i \in 1 .. Len(s) :
                  MatchesAt(s, i) /\ \A j \in 1 .. i - 1 : ~MatchesAt(s, j)
           j == i + Len(FilenameKey)
       IN S(SubSeq(s, j, RunEnd(s, j)))
  ELSE NonePayload

\* s.split(ch)[0] and s.split(ch)[-1]
SplitFirst(s, ch) ==
  IF \E i \in 1 .. Len(s) : s[i] = ch
  THEN SubSeq(s, 1, (CHOOSE i \in 1 .. Len(s) :
                       s[i] = ch /\ \A j \in 1 .. i - 1 : s[j] # ch) - 1)
  ELSE s

SplitLast(s, ch) ==
  IF \E i \in 1 .. Len(s) : s[i] = ch
  THEN SubSeq(s, (CHOOSE i \in 1 .. Len(s) :
                    s[i] = ch /\ \A j \in i + 1 .. Len(s) : s[j] # ch) + 1,
              Len(s))
  ELSE s

\* The headers of a message the handler asks for; None where the message has
\* no such header.
MessageHeaderNames == {"Content-Encoding", "Content-Disposition"}
get_first(headers, name) == headers[name]

\* The headers of a response: those every handler starts from.
ResponseHeaderNames ==
  {"Server", "Content-Type", "X-Frame-Options", "X-XSS-Protection",
   "X-Content-Type-Options", "Content-Security-Policy", "Content-Encoding",
   "Content-Disposition"}

set_default_headers ==
  [n \in ResponseHeaderNames |->
     CASE n = "Server" -> S(<<"version.NAMEVERSION">>)
       [] n = "Content-Type" -> S(<<"text/html; charset=UTF-8">>)
       [] n = "X-Frame-Options" -> S(<<"DENY">>)
       [] n = "X-XSS-Protection" -> S(<<"1; mode=block">>)
       [] n = "X-Content-Type-Options" -> S(<<"nosniff">>)
       [] n = "Content-Security-Policy" -> S(<<"default-src 'self'; ...">>)
       [] OTHER -> NonePayload]

set_header(headers, name, value) == [headers EXCEPT ![name] = value]

\* An APIError that leaves the handler: the response is cleared, takes the
\* error's status, and write_error finishes it with the error's log_message.
write_error(status_code, log_message) ==
  [status |-> status_code, headers |-> set_default_headers,
   body |-> S(<<log_message>>)]

\* The filename the handler puts in Content-Disposition.
Filename(flow, message) ==
  LET original_cd == get_first(message.headers, "Content-Disposition")
      found == IF Truthy(original_cd)
               THEN re_search_filename(original_cd.data) ELSE NonePayload
      filename == IF ~Truthy(found)
                  THEN SplitLast(SplitFirst(flow.request.path, "?"), "/")
                  ELSE found.data
  IN re_sub_filename(filename)

\* FlowContent.get with the flow store as the request finds it.
FlowContent_get(store, flow_id, message_name) ==
  IF flow_id \notin DOMAIN store
  THEN write_error(400, "Flow not found.")
  ELSE LET flow == store[flow_id]
           message == flow[message_name]
           content_encoding == get_first(message.headers, "Content-Encoding")
           h1 == IF Truthy(content_encoding)
                 THEN set_header(set_default_headers, "Content-Encoding",
                                 S(re_sub_nonword(content_encoding.data)))
                 ELSE set_default_headers
           h2 == set_header(h1, "Content-Disposition",
                   S(<<"attachment; filename=">> \o Filename(flow, message)))
           h3 == set_header(h2, "Content-Type", S(<<"application/text">>))
           h4 == set_header(h3, "X-Content-Type-Options", S(<<"nosniff">>))
           h5 == set_header(h4, "X-Frame-Options", S(<<"DENY">>))
       IN IF ~Truthy(message.content)
          THEN write_error(400, "No content.")
          ELSE [status |-> 200, headers |-> h5, body |-> message.content]

\* The flows the store may hold: a request path and two messages, each with
\* a stored body and the two headers the handler reads.
FlowIds == {"f1", "f2"}
MessageNames == {"request", "response"}

Bodies ==
  {NonePayload, B(<<>>), B(GzipMember(Probe.data, 0)), B(<<255>>)}

DeclaredEncodings ==
  {NonePayload, S(<<>>), S(<<"g", "z", "i", "p">>), S(<<"-">>),
   S(<<"b", "r", ";", "\n", "x", ":", "y">>)}

DeclaredDispositions ==
  {NonePayload,
   S(<<"i", "n", "l", "i", "n", "e", ";", " ">> \o FilenameKey
       \o <<"\"", "a", ".", "b", "\"", ";", "x">>),
   S(FilenameKey \o <<";">>)}

Paths ==
  {<<"/">>, <<"/", "a", "/", "b", ".", "c", "?", "d", "=", "/", "e">>,
   <<"/", "x", ";", "y">>}

Messages ==
  {[content |-> c,
    headers |-> [n \in MessageHeaderNames |->
                   IF n = "Content-Encoding" THEN ce ELSE cd]] :
     c \in Bodies, ce \in DeclaredEncodings, cd \in DeclaredDispositions}

Flows ==
  {[request |-> [content |-> m.content, headers |-> m.headers, path |-> p],
    response |-> r] :
     m \in Messages, r \in Messages, p \in Paths}

NoRequest == [flow_id |-> "none", message |-> "none", found |-> FALSE]
NoResponse == [status |-> 0, headers |-> set_default_headers,
               body |-> NonePayload]

\* ------------------------------------------------------------------ state
\* How many threads call decode/encode at once.
NumThreads == 2
Threads == 1 .. NumThreads

VARIABLES
  cache,   \* the module global _cache
  pre,     \* _cache as the last call found it
  call,    \* the last call: op, payload, encoding, errors, mtime
  ret,     \* what the last call returned or raised
  ran,     \* the library calls the last call made
  hit,     \* whether the last call returned from the cache
  thr,     \* per thread: the call it is in and how far it has got
  flows,   \* the flow store: flow id -> flow
  req,     \* the last download request and whether its flow was found
  resp     \* the response to it

vars == <<cache, pre, call, ret, ran, hit, thr, flows, req, resp>>
seq_vars == <<pre, call, ret, ran, hit>>
web_vars == <<flows, req, resp>>

\* The clock was not read.
NoClock == 0 - 1

\* A thread outside decode/encode.
Idle == [pc |-> "idle", op |-> "none", payload |-> NonePayload,
         encoding |-> "None", errors |-> "None",
         ret |-> [ok |-> TRUE, val |-> NonePayload, exc |-> "none",
                  cause |-> "none", about |-> "none"]]

NoCall == [op |-> "none", payload |-> NonePayload, encoding |-> "None",
           errors |-> "None", mtime |-> NoClock]

Init ==
  /\ cache = EmptyCache
  /\ pre = EmptyCache
  /\ call = NoCall
  /\ ret = Returned(NonePayload)
  /\ ran = <<>>
  /\ hit = FALSE
  /\ thr = [t \in Threads |-> Idle]
  /\ flows = <<>>
  /\ req = NoRequest
  /\ resp = NoResponse

Decode(encoded, encoding, errors) ==
  \E r \in {decode(cache, encoded, encoding, errors)} :
    /\ pre' = cache
    /\ call' = [op |-> "decode", payload |-> encoded, encoding |-> encoding,
                errors |-> errors, mtime |-> NoClock]
    /\ cache' = r.cache
    /\ ret' = r.ret
    /\ ran' = r.ran
    /\ hit' = r.hit
    /\ thr' = thr
    /\ UNCHANGED web_vars

\* GzipFile reads the clock when encode_gzip runs, and only then.
ReadsClock(c, decoded, encoding, errors) ==
  /\ ~EncodeCached(c, decoded, encoding, errors)
  /\ encoding = "gzip"
  /\ isinstance_bytes(decoded)

Encode(decoded, encoding, errors, mtime) ==
  \E r \in {encode(cache, decoded, encoding, errors, mtime)} :
    /\ mtime # NoClock <=> ReadsClock(cache, decoded, encoding, errors)
    /\ pre' = cache
    /\ call' = [op |-> "encode", payload |-> decoded, encoding |-> encoding,
                errors |-> errors, mtime |-> mtime]
    /\ cache' = r.cache
    /\ ret' = r.ret
    /\ ran' = r.ran
    /\ hit' = r.hit
    /\ thr' = thr
    /\ UNCHANGED web_vars

Next ==
  \/ \E p \in Payloads, e \in Encodings, x \in Errors : Decode(p, e, x)
  \/ \E p \in Plain, e \in Encodings, x \in Errors, t \in MTimes \cup {NoClock} :
       Encode(p, e, x, t)

Spec == Init /\ [][Next]_vars

\* ------------------------------------------------------ threaded calls
\* What the threads call decode/encode with: plain contents and their
\* zlib and brotli streams.
ConcPayloads ==
  Contents \cup {zlib_compress(c).val : c \in Contents}
           \cup {brotli_compress(c).val : c \in Contents}
ConcEncodings == {"deflate", "br"}
ConcErrors == {"strict"}

\* The field of the slot a call compares its payload with and the one it
\* returns on a hit.
KeyField(c, op) == IF op = "decode" THEN c.encoded ELSE c.decoded
ValueField(c, op) == IF op = "decode" THEN c.decoded ELSE c.encoded

\* A thread enters decode or encode; isinstance() reads nothing shared.
CStart(t, op, p, e, x) ==
  /\ thr[t].pc \in {"idle", "done"}
  /\ thr' = [thr EXCEPT ![t] =
       [pc |-> IF isinstance_bytes(p) THEN "c1" ELSE "try", op |-> op,
        payload |-> p, encoding |-> e, errors |-> x, ret |-> Idle.ret]]
  /\ UNCHANGED <<cache, seq_vars, web_vars>>

\* The first read of the global: _cache.encoded == encoded.
CRead1(t) ==
  /\ thr[t].pc = "c1"
  /\ thr' = [thr EXCEPT ![t].pc =
       IF KeyField(cache, thr[t].op) = thr[t].payload THEN "c2" ELSE "try"]
  /\ UNCHANGED <<cache, seq_vars, web_vars>>

\* The second read: _cache.encoding == encoding.
CRead2(t) ==
  /\ thr[t].pc = "c2"
  /\ thr' = [thr EXCEPT ![t].pc =
       IF cache.encoding = thr[t].encoding THEN "c3" ELSE "try"]
  /\ UNCHANGED <<cache, seq_vars, web_vars>>

\* The third read: _cache.errors == errors.
CRead3(t) ==
  /\ thr[t].pc = "c3"
  /\ thr' = [thr EXCEPT ![t].pc =
       IF cache.errors = thr[t].errors THEN "cached" ELSE "try"]
  /\ UNCHANGED <<cache, seq_vars, web_vars>>

\* The fourth read: return _cache.decoded.
CReturnCached(t) ==
  /\ thr[t].pc = "cached"
  /\ thr' = [thr EXCEPT ![t].pc = "done",
                        ![t].ret = Returned(ValueField(cache, thr[t].op))]
  /\ UNCHANGED <<cache, seq_vars, web_vars>>

\* The try block: the codec runs on the thread's own arguments, the global is
\* written if the encoding is cacheable, and the call returns or raises.
CTry(t) ==
  /\ thr[t].pc = "try"
  /\ \E r \in {IF thr[t].op = "decode"
               THEN decode(EmptyCache, thr[t].payload, thr[t].encoding,
                           thr[t].errors)
               ELSE encode(EmptyCache, thr[t].payload, thr[t].encoding,
                           thr[t].errors, 0)} :
       /\ thr' = [thr EXCEPT ![t].pc = "done", ![t].ret = r.ret]
       /\ cache' = IF r.ret.ok /\ thr[t].encoding \in Cacheable
                   THEN r.cache ELSE cache
  /\ UNCHANGED <<seq_vars, web_vars>>

NextConc ==
  \/ \E t \in Threads, op \in {"decode", "encode"}, p \in ConcPayloads,
        e \in ConcEncodings, x \in ConcErrors : CStart(t, op, p, e, x)
  \/ \E t \in Threads : CRead1(t)
  \/ \E t \in Threads : CRead2(t)
  \/ \E t \in Threads : CRead3(t)
  \/ \E t \in Threads : CReturnCached(t)
  \/ \E t \in Threads : CTry(t)

SpecConc == Init /\ [][NextConc]_vars

\* ------------------------------------------------------ download requests
\* The flow store takes a flow under an id it does not hold.
AddFlow(flow_id) ==
  /\ flow_id \notin DOMAIN flows
  /\ \E flow \in Flows :
       flows' = [i \in DOMAIN flows \cup {flow_id} |->
                   IF i = flow_id THEN flow ELSE flows[i]]
  /\ UNCHANGED <<req, resp, cache, seq_vars, thr>>

\* GET of a flow's request or response body.
Get(flow_id, message) ==
  /\ req' = [flow_id |-> flow_id, message |-> message,
             found |-> flow_id \in DOMAIN flows]
  /\ resp' = FlowContent_get(flows, flow_id, message)
  /\ UNCHANGED <<flows, cache, seq_vars, thr>>

NextWeb ==
  \/ AddFlow("f1")
  \/ \E i \in FlowIds, m \in MessageNames : Get(i, m)

SpecWeb == Init /\ [][NextWeb]_vars

\* ----------------------------------------------------------- properties
\* The last call on the empty slot: what it would have returned, for every
\* clock reading it could have met.
AloneRets ==
  IF call.op = "decode"
  THEN {decode(EmptyCache, call.payload, call.encoding, call.errors).ret}
  ELSE {encode(EmptyCache, call.payload, call.encoding, call.errors, t).ret :
          t \in MTimes}

\* The wire forms of the zlib stream w: as it is, and with header and
\* checksum stripped.
StripZlib(w) == B(SubSeq(w.data, 2, Len(w.data) - 1))

\* x is the zlib-wrapped form of d: header, the deflate stream of d, checksum.
IsZlibWrapped(x, d) ==
  /\ isinstance_bytes(x)
  /\ Len(x.data) >= 2
  /\ x.data[1] = ZlibCMF
  /\ x.data[Len(x.data)] = Adler32(d.data)
  /\ LET r == Inflate(Tail(x.data)) IN
       r.ok /\ r.out = d.data /\ r.used = Len(x.data) - 2

\* C1: for every byte sequence b, every cacheable scheme s and every cache
\* state, decode(encode(b, s), s) returns exactly b: whatever encode has
\* just returned for b decodes to b again, with either error policy, on the
\* slot encode left, on the slot it found and on the empty slot.
C1_RoundTrip ==
  (call.op = "encode" /\ isinstance_bytes(call.payload)
     /\ call.encoding \in Cacheable)
  => /\ ret.ok
     /\ \A c \in {cache, pre, EmptyCache} : \A x \in Errors :
          decode(c, ret.val, call.encoding, x).ret = Returned(call.payload)

C1_Witness ==
  /\ call.op = "encode" /\ call.encoding = "gzip" /\ ~hit /\ ret.ok
  /\ call.payload = B(<<0>>) /\ pre.encoding = "gzip"

\* C2 as claimed: the value or error a call returns is the one the same call
\* returns on the empty slot.
C2_Original == call.op # "none" => ret \in AloneRets

\* C2 amended: what decode returns is what it returns on the empty slot; so
\* it is for encode, except that a hit of encode returns the cached bytes,
\* which may differ from the codec's output but decode, on the empty slot and
\* with the same encoding and error policy, to the payload of the call.
C2_ReturnIndependentOfCache ==
  /\ call.op = "decode" => ret \in AloneRets
  /\ call.op = "encode" =>
       \/ ret \in AloneRets
       \/ /\ hit
          /\ ret.ok
          /\ \E a \in AloneRets : a.ok
          /\ decode(EmptyCache, ret.val, call.encoding, call.errors).ret
               = Returned(call.payload)

C2_Witness ==
  /\ call.op = "encode" /\ hit /\ ret \notin AloneRets
  /\ decode(EmptyCache, ret.val, call.encoding, call.errors).ret
       = Returned(call.payload)

\* C4 as claimed: a successful encode(d, "deflate") returns the zlib-wrapped
\* form of d.
C4_Original ==
  (call.op = "encode" /\ call.encoding = "deflate" /\ ret.ok)
  => IsZlibWrapped(ret.val, call.payload)

\* C4 amended: a successful encode(d, "deflate") that runs the codec returns
\* the zlib-wrapped form of d; one that hits the cache returns the slot's
\* encoded bytes, the bytes an earlier decode was given, which decode_deflate
\* decodes to d and which may be a raw stream.
C4_DeflateWrappedOnMiss ==
  (call.op = "encode" /\ call.encoding = "deflate" /\ ret.ok)
  => /\ ~hit => IsZlibWrapped(ret.val, call.payload)
     /\ hit => /\ ret.val = pre.encoded
               /\ decode_deflate(ret.val).val = call.payload

C4_Witness ==
  /\ call.op = "encode" /\ call.encoding = "deflate" /\ ret.ok /\ ~hit
  /\ call.payload = B(<<0>>) /\ pre.encoding = "deflate"
  /\ ~IsZlibWrapped(pre.encoded, pre.decoded)

\* C5: when decode(b, s, e) with bytes b and cacheable s has succeeded and the
\* next call is decode(b, s, e) again, that call returns the same value and
\* makes no call of the scheme's decode function.
C5_SecondDecodeCached ==
  [][(/\ call.op = "decode" /\ ret.ok
      /\ isinstance_bytes(call.payload) /\ call.encoding \in Cacheable
      /\ call' = call)
     => (ret' = ret /\ ran' = <<>> /\ hit' /\ cache' = cache)]_vars

C5_Witness ==
  /\ call.op = "decode" /\ call.encoding = "gzip" /\ hit /\ ran = <<>>
  /\ ret = Returned(B(<<0>>)) /\ pre = cache
  /\ pre.encoded = call.payload

\* C6: a decode call whose (payload, encoding, error policy) differs in some
\* component from the slot's (encoded, encoding, errors) does not take its
\* result from the slot: it runs the codec and returns the codec's result for
\* its own payload.
C6_MissRecomputes ==
  (/\ call.op = "decode"
   /\ \/ pre.encoded # call.payload
      \/ pre.encoding # call.encoding
      \/ pre.errors # call.errors)
  => /\ ~hit
     /\ LET r == DecodeTry(call.payload, call.encoding, call.errors) IN
          /\ ran = r.log
          /\ ret = IF r.ok THEN Returned(r.val)
                   ELSE ValueError(r.exc, call.encoding)

\* The slot holds the gzip entry of another payload with another content.
C6_Witness ==
  /\ call.op = "decode" /\ call.encoding = "gzip" /\ ret.ok
  /\ pre.encoding = "gzip" /\ pre.errors = call.errors
  /\ pre.encoded # call.payload /\ pre.decoded # ret.val
  /\ ran # <<>>

\* C7: a failure of a registry codec or of the charset codecs ends the call
\* with the one ValueError outcome and no value, whatever was raised
\* underneath; a call ends with a value or with that outcome, nothing else.
C7_UniformError ==
  call.op # "none" =>
    /\ ret.exc \in {"none", "ValueError"}
    /\ ret.ok <=> ret.exc = "none"
    /\ ~ret.ok => ret.val = NonePayload
    /\ LET r == IF call.op = "decode"
                THEN DecodeTry(call.payload, call.encoding, call.errors)
                ELSE EncodeTry(call.payload, call.encoding, call.errors,
                               call.mtime)
       IN (~hit /\ ~r.ok) =>
            /\ ~ret.ok
            /\ ret.cause = r.exc
            /\ ret.cause \notin {"none", "ValueError"}

\* decode(garbage, "gzip").
C7_Witness ==
  /\ call.op = "decode" /\ call.encoding = "gzip"
  /\ call.payload = B(<<255>>)
  /\ ret.exc = "ValueError" /\ ret.cause = "OSError"
  /\ ret.val = NonePayload

\* C8: when decode(x, s, e) with bytes x and cacheable s has returned d and the
\* next call is encode(d, s, e), that call returns exactly x and makes no call
\* of the scheme's encode function.
C8_EncodeAfterDecodeCached ==
  [][(/\ call.op = "decode" /\ ret.ok
      /\ isinstance_bytes(call.payload) /\ call.encoding \in Cacheable
      /\ call'.op = "encode" /\ call'.payload = ret.val
      /\ call'.encoding = call.encoding /\ call'.errors = call.errors)
     => (ret' = Returned(call.payload) /\ ran' = <<>> /\ hit'
         /\ call'.mtime = NoClock)]_vars

\* The bytes returned are a raw deflate stream, which the codec never writes.
C8_Witness ==
  /\ call.op = "encode" /\ call.encoding = "deflate" /\ hit /\ ran = <<>>
  /\ call.payload = B(<<0>>)
  /\ ret = Returned(B(Deflate(<<0>>)))
  /\ pre.encoded = ret.val /\ pre.decoded = call.payload

\* C9: decode(b, "identity") and encode(b, "identity") return b, for every
\* payload and every cache state.
C9_Identity ==
  (call.op # "none" /\ call.encoding = "identity")
  => (ret = Returned(call.payload) /\ cache = pre)

C9_Witness ==
  /\ call.op = "decode" /\ call.encoding = "identity"
  /\ ret = Returned(call.payload)
  /\ pre.encoding = "gzip" /\ pre.encoded = call.payload

\* C10: decode of the zlib-wrapped deflate stream of a content and decode of
\* the same stream with header and checksum stripped, both with encoding
\* "deflate", succeed and return the content.
C10_WrappedAndRawAgree ==
  \A c \in Contents :
    LET w == zlib_compress(c).val IN
      (call.op = "decode" /\ call.encoding = "deflate"
         /\ call.payload \in {w, StripZlib(w)})
      => ret = Returned(c)

\* The raw stream, decoded by the second attempt.
C10_Witness ==
  /\ call.op = "decode" /\ call.encoding = "deflate" /\ ~hit
  /\ call.payload = StripZlib(zlib_compress(B(<<0>>)).val)
  /\ ran = <<"zlib.decompress", "zlib.decompress(-15)">>
  /\ ret = Returned(B(<<0>>))

\* C3: with threads interleaved at the reads and the write of the global,
\* every call that has returned has returned what the codec produces for its
\* own payload, encoding and error policy.
C3_RaceBenign ==
  \A t \in Threads :
    thr[t].pc = "done" =>
      thr[t].ret =
        (IF thr[t].op = "decode"
         THEN decode(EmptyCache, thr[t].payload, thr[t].encoding,
                     thr[t].errors)
         ELSE encode(EmptyCache, thr[t].payload, thr[t].encoding,
                     thr[t].errors, 0)).ret

\* The byte 0xFF, which no UTF-8 sequence contains.
InvalidByte == 255

Contains(s, v) == \E i \in 1 .. Len(s) : s[i] = v

\* C11: for a charset handled by the charset codecs, decode of malformed
\* bytes with error policy "replace" succeeds and returns text that contains
\* the replacement marker; with policy "strict" the same call fails with
\* ValueError (the UnicodeDecodeError underneath).
C11_ReplaceVersusStrict ==
  (/\ call.op = "decode" /\ call.encoding \in {"utf-8"}
   /\ isinstance_bytes(call.payload)
   /\ Contains(call.payload.data, InvalidByte))
  => /\ call.errors = "replace" =>
          /\ ret.ok /\ ret.val.kind = "text"
          /\ Contains(ret.val.data, REPLACEMENT)
     /\ call.errors = "strict" =>
          /\ ~ret.ok /\ ret.exc = "ValueError"
          /\ ret.cause = "UnicodeDecodeError"

C11_Witness ==
  /\ call.op = "decode" /\ call.encoding = "utf-8" /\ call.errors = "replace"
  /\ call.payload = B(<<InvalidByte>>)
  /\ ret = Returned(T(<<REPLACEMENT>>))

\* The slot as the module is loaded, and the entry the last call makes when
\* it stores one.
SlotEmpty(c) ==
  c = [encoded |-> NonePayload, encoding |-> "None", errors |-> "None",
       decoded |-> NonePayload]

EntryOfCall ==
  IF call.op = "decode"
  THEN [encoded |-> call.payload, encoding |-> call.encoding,
        errors |-> call.errors, decoded |-> ret.val]
  ELSE [encoded |-> ret.val, encoding |-> call.encoding,
        errors |-> call.errors, decoded |-> call.payload]

CompressionNames == {"gzip", "deflate", "br"}

\* C12: the slot changes only in a call that succeeds, misses the cache and
\* has a cacheable encoding, and is then exactly that call's (encoded,
\* encoding, errors, decoded); every other call leaves it as it found it;
\* a populated slot is never empty again.
C12_SlotLifecycle ==
  call.op # "none" =>
    /\ IF ret.ok /\ ~hit /\ call.encoding \in CompressionNames
       THEN cache = EntryOfCall /\ cache # pre
       ELSE cache = pre
    /\ ~SlotEmpty(pre) => ~SlotEmpty(cache)

\* An entry made by encode replaces the entry of another content.
C12_Witness ==
  /\ call.op = "encode" /\ call.encoding = "br" /\ ret.ok /\ ~hit
  /\ ~SlotEmpty(pre) /\ pre.encoding = "gzip"
  /\ cache = EntryOfCall /\ cache.decoded # pre.decoded

\* C13: when the slot is not empty, the decode function of the slot's scheme
\* applied to the slot's encoded bytes yields the slot's decoded bytes.
C13_SlotIsAPair ==
  ~SlotEmpty(cache) =>
    /\ cache.encoding \in CompressionNames
    /\ LET r == custom_decode(cache.encoding, cache.encoded) IN
         r.ok /\ r.val = cache.decoded

\* The pair was stored by encode_gzip, with a clock reading in its header.
C13_Witness ==
  /\ call.op = "encode" /\ call.encoding = "gzip" /\ ~hit
  /\ call.mtime = MaxMTime
  /\ cache.encoded = ret.val /\ cache.decoded = B(<<0>>)

\* C14: the slot's encoding is empty or one of gzip, deflate, br; a call with
\* encoding "identity" or a name left to the charset codecs takes nothing
\* from the slot and leaves it as it found it.
C14_OnlyCompressionCached ==
  /\ cache.encoding \in CompressionNames \cup {"None"}
  /\ (call.op # "none" /\ call.encoding \notin CompressionNames)
     => (cache = pre /\ ~hit /\ ret \in AloneRets)

\* A successful utf-8 decode of bytes that are also the slot's encoded bytes.
C14_Witness ==
  /\ call.op = "decode" /\ call.encoding = "utf-8" /\ ret.ok
  /\ pre.encoded = call.payload /\ pre.errors = call.errors
  /\ cache = pre /\ ~hit

\* C15: a call that fails leaves the slot as it found it, so decode with the
\* slot's (encoded, encoding, errors) and encode with its (decoded, encoding,
\* errors) still hit after it.
C15_FailureKeepsSlot ==
  (call.op # "none" /\ ~ret.ok) =>
    /\ cache = pre
    /\ ~SlotEmpty(pre) =>
         /\ decode(cache, pre.encoded, pre.encoding, pre.errors).hit
         /\ decode(cache, pre.encoded, pre.encoding, pre.errors).ret
              = Returned(pre.decoded)
         /\ encode(cache, pre.decoded, pre.encoding, pre.errors, NoClock).hit
         /\ encode(cache, pre.decoded, pre.encoding, pre.errors, NoClock).ret
              = Returned(pre.encoded)

\* A gzip decode of garbage after a gzip entry was stored.
C15_Witness ==
  /\ call.op = "decode" /\ call.encoding = "gzip" /\ ~ret.ok
  /\ pre.encoding = "gzip" /\ ~SlotEmpty(cache) /\ cache = pre
  /\ pre.encoded # call.payload

\* C16: a deflate decode that reaches the codec first reads its input as a
\* zlib-wrapped stream and returns that result when it succeeds; only when
\* that attempt fails does it make one second attempt, reading the input as
\* a raw stream; the call fails exactly when both attempts fail. No other
\* codec makes a second attempt.
C16_DeflateTwoAttempts ==
  (call.op = "decode" /\ ~hit) =>
    IF call.encoding = "deflate" /\ isinstance_bytes(call.payload)
    THEN LET wrapped == zlib_decompress(call.payload, MAX_WBITS)
             raw == zlib_decompress(call.payload, 0 - MAX_WBITS) IN
           /\ wrapped.ok => /\ ran = <<"zlib.decompress">>
                            /\ ret = Returned(wrapped.val)
           /\ ~wrapped.ok => /\ ran = <<"zlib.decompress", "zlib.decompress(-15)">>
                             /\ raw.ok => ret = Returned(raw.val)
           /\ ~ret.ok <=> (~wrapped.ok /\ ~raw.ok)
    ELSE Len(ran) <= 1

\* Both attempts were made and both failed.
C16_Witness ==
  /\ call.op = "decode" /\ call.encoding = "deflate" /\ ~hit
  /\ isinstance_bytes(call.payload)
  /\ ran = <<"zlib.decompress", "zlib.decompress(-15)">>
  /\ ~ret.ok /\ ret.cause = "zlib.error"

\* The claim as worded: under either error policy, from the slot the call
\* found, the call's outcome is the one it had (for some reading of the
\* clock, where the codec reads it).
C17_Original ==
  (call.op # "none" /\ call.encoding \in CompressionNames) =>
    \A e \in Errors :
      IF call.op = "decode"
      THEN decode(pre, call.payload, call.encoding, e).ret = ret
      ELSE \E t \in MTimes :
             encode(pre, call.payload, call.encoding, e, t).ret = ret

\* C17: for gzip, deflate and br, decode of a payload has the same outcome
\* under either error policy in every slot state. encode under either policy
\* fails alike or succeeds alike, and what it returns decodes to the payload
\* under both; the returned bytes are equal when both calls hit or both miss
\* (the policy is part of the slot's key, so one may hit where the other
\* misses).
C17_PolicyIgnoredByCodec ==
  (call.op # "none" /\ call.encoding \in CompressionNames) =>
    \A e \in Errors :
      IF call.op = "decode"
      THEN decode(pre, call.payload, call.encoding, e).ret = ret
      ELSE \E t \in MTimes :
             \E o \in {encode(pre, call.payload, call.encoding, e, t)} :
               /\ o.ret.ok <=> ret.ok
               /\ ~ret.ok => o.ret = ret
               /\ o.hit = hit => o.ret = ret
               /\ ret.ok =>
                    /\ custom_decode(call.encoding, o.ret.val).val = call.payload
                    /\ custom_decode(call.encoding, ret.val).val = call.payload

\* encode hits under "strict" and returns the raw stream decode was given;
\* under "replace" it misses and returns the wrapped stream.
C17_Witness ==
  /\ call.op = "encode" /\ call.encoding = "deflate" /\ call.errors = "strict"
  /\ hit /\ ret.ok
  /\ \E o \in {encode(pre, call.payload, "deflate", "replace", 0)} :
       ~o.hit /\ o.ret.ok /\ o.ret # ret

\* What a call returns for the outcome r of its inner try.
OutcomeOf(r, encoding) ==
  IF r.ok
  THEN [ok |-> TRUE, val |-> r.val, exc |-> "none", cause |-> "none",
        about |-> "none"]
  ELSE [ok |-> FALSE, val |-> NonePayload, exc |-> "ValueError",
        cause |-> r.exc, about |-> encoding]

RegistryNames == {"identity", "gzip", "deflate", "br"}

\* C18: a call that reaches the registry runs a registry codec exactly when
\* its encoding is one of identity, gzip, deflate, br as written; for any
\* other name, "GZIP" included, it makes the one call to the charset codecs
\* with the call's error policy, returns that call's outcome, and leaves the
\* slot as it found it.
C18_ExactMatchDispatch ==
  (call.op # "none" /\ ~hit) =>
    IF call.encoding \in RegistryNames
    THEN /\ \A i \in 1 .. Len(ran) : ran[i] \notin {"codecs.decode", "codecs.encode"}
         /\ call.op = "decode" =>
              /\ ret = OutcomeOf(custom_decode(call.encoding, call.payload),
                                 call.encoding)
              /\ ran = custom_decode(call.encoding, call.payload).log
         /\ call.op = "encode" =>
              /\ ret = OutcomeOf(custom_encode(call.encoding, call.payload,
                                               call.mtime), call.encoding)
              /\ ran = custom_encode(call.encoding, call.payload, call.mtime).log
    ELSE /\ cache = pre
         /\ call.op = "decode" =>
              /\ ran = <<"codecs.decode">>
              /\ ret = OutcomeOf(codecs_decode(call.payload, call.encoding,
                                               call.errors), call.encoding)
         /\ call.op = "encode" =>
              /\ ran = <<"codecs.encode">>
              /\ ret = OutcomeOf(codecs_encode(call.payload, call.encoding,
                                               call.errors), call.encoding)

\* decode of a gzip stream under the name "GZIP": the charset codecs know no
\* such name.
C18_Witness ==
  /\ call.op = "decode" /\ call.encoding = "GZIP" /\ ~hit
  /\ decode_gzip(call.payload).ok
  /\ ran = <<"codecs.decode">>
  /\ ~ret.ok /\ ret.cause = "LookupError" /\ cache = pre

\* The message the last download request asked for.
Asked == flows[req.flow_id][req.message]

\* C19: a download that is served writes the stored body of the message as
\* it is; the response has a Content-Encoding header only if the message
\* declares one, and its value is the declared value without its non-word
\* characters, so word characters only.
C19_DownloadServesStoredBody ==
  (req.found /\ resp.status = 200) =>
    LET declared == Asked.headers["Content-Encoding"]
        sent == resp.headers["Content-Encoding"] IN
      /\ resp.body = Asked.content
      /\ sent.kind # "none" => declared.kind = "str"
      /\ (declared.kind = "str" /\ Len(declared.data) > 0) =>
           /\ sent.kind = "str"
           /\ sent.data = SelectSeq(declared.data, IsWordChar)
           /\ \A i \in 1 .. Len(sent.data) : sent.data[i] \in WordChars

\* A body that is no gzip, deflate or br stream is served under a declared
\* encoding that had a separator, a line break and a colon in it.
C19_Witness ==
  /\ req.found /\ resp.status = 200
  /\ Asked.headers["Content-Encoding"]
       = S(<<"b", "r", ";", "\n", "x", ":", "y">>)
  /\ resp.headers["Content-Encoding"] = S(<<"b", "r", "x", "y">>)
  /\ resp.body = B(<<255>>)

\* The characters of a registry name.
NameChars(e) ==
  CASE e = "gzip" -> <<"g", "z", "i", "p">>
    [] e = "deflate" -> <<"d", "e", "f", "l", "a", "t", "e">>
    [] e = "br" -> <<"b", "r">>

\* The message declares a compression its stored body is no stream of.
Undecodable(m) ==
  \E e \in CompressionNames :
    /\ m.headers["Content-Encoding"] = S(NameChars(e))
    /\ ~custom_decode(e, m.content).ok

IsEmpty(content) == content.kind = "none" \/ Len(content.data) = 0

\* The claim as worded: 400 and nothing of the body whenever the content is
\* empty or cannot be decoded.
C20_Original ==
  (req.found /\ (IsEmpty(Asked.content) \/ Undecodable(Asked))) =>
    /\ resp.status = 400
    /\ resp.body.kind = "str"

\* C20: a download of a message whose content is None or of length zero is
\* answered 400 with the text "No content." and the headers every response
\* starts from; content that is not empty is served with status 200 as it is
\* stored, whether or not it can be decoded under the declared encoding.
C20_EmptyContentIs400 ==
  req.found =>
    IF IsEmpty(Asked.content)
    THEN /\ resp.status = 400
         /\ resp.body.kind = "str" /\ resp.body.data = <<"No content.">>
         /\ resp.headers["Content-Encoding"].kind = "none"
         /\ resp.headers["Content-Disposition"].kind = "none"
    ELSE /\ resp.status = 200
         /\ resp.body = Asked.content

\* The content is b"", not None.
C20_Witness ==
  /\ req.found /\ Asked.content = B(<<>>)
  /\ Asked.headers["Content-Encoding"] = S(NameChars("gzip"))
  /\ resp.status = 400

====
